---------------------------- MODULE Spec2Model ----------------------------
(***************************************************************************)
(* A model of holocube's CRS-aware elements (holocube/element/geo.py) and  *)
(* of its projection-aware matplotlib plots (holocube/plotting/__init__.py)*)
(*                                                                         *)
(* Four specifications share this module, one per part of the program:     *)
(*   SpecExtents  transform_extents / GeoPlot.get_extents                  *)
(*   SpecElement  GeoElement construction and clone                        *)
(*   SpecProj     GeoPlot.__init__ (resolution of the display projection)  *)
(*   SpecPlot     artist lifecycle of the plots sharing one axis           *)
(***************************************************************************)
EXTENDS Integers, Sequences, FiniteSets, TLC

VARIABLES
    ext,      \* SpecExtents: the last get_extents call, its arguments and result
    chain,    \* SpecElement: the elements constructed so far
    last,     \* SpecElement: the last constructor/clone call and its outcome
    gp,       \* SpecProj:    the last GeoPlot construction
    axis,     \* SpecPlot:    artists attached to the shared axis
    owner,    \* SpecPlot:    the layer that created each artist
    handles,  \* SpecPlot:    each plot's handles dict
    plast     \* SpecPlot:    the last plot operation and its outcome

vars == <<ext, chain, last, gp, axis, owner, handles, plast>>

(***************************************************************************)
(* CRS descriptors.  A cartopy CRS is a class plus its parameters; == on   *)
(* two CRS objects compares both (structural equality), type() only the    *)
(* class.  None is the unset value of the crs parameter.                   *)
(***************************************************************************)
MkCRS(c, l) == [cls |-> c, lon |-> l]

None == MkCRS("NoneType", 0)

PlateCarree(l) == MkCRS("PlateCarree", l)

CRSs == {PlateCarree(0), PlateCarree(180), MkCRS("Miller", 0), MkCRS("Robinson", 0)}

\* isinstance(proj, crs._CylindricalProjection)
IsCylindrical(proj) == proj.cls \in {"PlateCarree", "Miller"}

\* bool(x) of a crs value: None is falsy, a CRS object is truthy
Truthy(c) == c # None

(***************************************************************************)
(* transform_extents                                                       *)
(***************************************************************************)
MaxCoord == 1

Coords == (-MaxCoord)..MaxCoord

HalfPeriod == 180

\* A coordinate of an extent: a number, or None after a failed transform
Some(x) == [def |-> TRUE, v |-> x]

Undefined == [def |-> FALSE, v |-> 0]

Min(a, b) == IF a < b THEN a ELSE b

FalseNorthing(c) ==
    CASE c.cls = "Miller"   -> 10
      [] c.cls = "Robinson" -> 20
      [] OTHER              -> 0

\* proj.transform_point(x, y, src_crs=src): the projection library's point
\* transform, a change of origin here; `fails` is the library raising.
transform_point(proj, x, y, src, fails) ==
    IF fails
    THEN [exc |-> TRUE, x |-> 0, y |-> 0]
    ELSE [exc |-> FALSE,
          x |-> x + src.lon - proj.lon,
          y |-> y + FalseNorthing(src) - FalseNorthing(proj)]

\* try: a, b = proj.transform_point(...)  except: a, b = None, None
TryCorner(proj, x, y, src, fails) ==
    LET p == transform_point(proj, x, y, src, fails)
    IN  IF p.exc THEN <<Undefined, Undefined>> ELSE <<Some(p.x), Some(p.y)>>

\* lines 20-29: the four values before the cylindrical shift
Reproject(crs, proj, extents, failLB, failRT) ==
    IF proj.cls # crs.cls
    THEN LET lb == TryCorner(proj, extents[1], extents[2], crs, failLB)
             rt == TryCorner(proj, extents[3], extents[4], crs, failRT)
         IN  <<lb[1], lb[2], rt[1], rt[2]>>
    ELSE <<Some(extents[1]), Some(extents[2]), Some(extents[3]), Some(extents[4])>>

\* x - 180 of line 31
ShiftWrongSign(x) == Some(x.v + HalfPeriod)

Shift(x) == Some(x.v - HalfPeriod)

Returned(t) == [status |-> "returned", val |-> t]

Raised(e) == [status |-> e, val |-> <<Undefined, Undefined, Undefined, Undefined>>]

\* lines 30-32: l, r = l-180, r-180 raises TypeError on None
CylindricalShift(proj, rep) ==
    IF IsCylindrical(proj)
    THEN IF rep[1].def /\ rep[3].def
         THEN Returned(<<Shift(rep[1]), rep[2], Shift(rep[3]), rep[4]>>)
         ELSE Raised("TypeError")
    ELSE Returned(rep)

\* geo_dims = element.dimensions(label=True)[0:2]; the early return of line 18
EarlyReturn(crs, ndims) == ~Truthy(crs) \/ Min(ndims, 2) # 2

transform_extents(crs, ndims, proj, extents, failLB, failRT) ==
    IF EarlyReturn(crs, ndims)
    THEN Returned(<<Some(extents[1]), Some(extents[2]), Some(extents[3]), Some(extents[4])>>)
    ELSE CylindricalShift(proj, Reproject(crs, proj, extents, failLB, failRT))

MaxDims == 3

ExtIdle ==
    [pc |-> "idle", crs |-> None, ndims |-> 0, proj |-> PlateCarree(0),
     extents |-> <<0, 0, 0, 0>>, failLB |-> FALSE, failRT |-> FALSE,
     rep |-> <<Undefined, Undefined, Undefined, Undefined>>,
     ret |-> Raised("none")]

\* The arguments of one call: the element's crs and number of dimensions, the
\* projection of the axis, the base extents, and whether the projection
\* library raises at either corner
ExtCalls ==
    {[ExtIdle EXCEPT !.crs = c, !.ndims = n, !.proj = p, !.extents = <<l, b, r, t>>,
                     !.failLB = f[1], !.failRT = f[2]] :
        c \in CRSs \cup {None}, n \in 0..MaxDims, p \in CRSs,
        l \in Coords, b \in Coords, r \in Coords, t \in Coords,
        f \in BOOLEAN \X BOOLEAN}

\* GeoPlot.get_extents: the base extents of the view, transformed into the
\* projection of the axis
GetExtents ==
    /\ ext.pc = "idle"
    /\ ext' = [ext EXCEPT
                 !.pc = "done",
                 !.rep = IF EarlyReturn(ext.crs, ext.ndims)
                         THEN ExtIdle.rep
                         ELSE Reproject(ext.crs, ext.proj, ext.extents, ext.failLB, ext.failRT),
                 !.ret = transform_extents(ext.crs, ext.ndims, ext.proj, ext.extents,
                                           ext.failLB, ext.failRT)]
    /\ UNCHANGED <<chain, last, gp, axis, owner, handles, plast>>

(***************************************************************************)
(* GeoElement: construction and clone                                      *)
(***************************************************************************)
CA == PlateCarree(0)

CB == PlateCarree(180)

\* The payload handed to a constructor: its Python type (`shape`), whether it
\* is wrapped in a HoloCube, and what its coordinate system offers: `conv` is
\* hasattr(coord_sys, 'as_cartopy_projection'), `pcrs` the projection that
\* call returns for a cube, or the .crs of a Feature / GoogleTiles.
Payload(s, w, c, p) == [shape |-> s, wrapped |-> w, conv |-> c, pcrs |-> p]

Payloads ==
    {Payload("str", FALSE, FALSE, None),
     Payload("tuple", FALSE, FALSE, None),
     Payload("Feature", FALSE, FALSE, CA),
     Payload("Feature", FALSE, FALSE, CB),
     Payload("Feature", TRUE, FALSE, CA),
     Payload("GoogleTiles", FALSE, FALSE, CA),
     Payload("Cube", FALSE, TRUE, CA),
     Payload("Cube", FALSE, FALSE, None),
     Payload("Cube", TRUE, TRUE, CB)}

\* data=None of clone
NoData == Payload("NoneType", FALSE, FALSE, None)

\* **kwargs restricted to the 'crs' key: absent, or present with a value
Kwargs == [has : BOOLEAN, crs : {None, CA, CB}] \ {[has |-> FALSE, crs |-> CA], [has |-> FALSE, crs |-> CB]}

NoKwargs == [has |-> FALSE, crs |-> None]

Variants == {"GeoFeature", "WMTS", "GeoTiles", "Points", "Contours", "Image", "Text"}

\* lines 28-35: crs_data = data.data if isinstance(data, HoloCube) else data,
\* and what the isinstance chain reads from it
InferCRS(data) ==
    CASE data.shape = "Cube" -> IF data.conv THEN data.pcrs ELSE None
      [] data.shape \in {"Feature", "GoogleTiles"} -> data.pcrs
      [] OTHER -> None

Ok(v, data, c) == [exc |-> "none", el |-> [variant |-> v, data |-> data, crs |-> c]]

Fail(e) == [exc |-> e, el |-> [variant |-> "none", data |-> NoData, crs |-> None]]

\* kwargs.get('crs', None)
Supplied(kw) == IF kw.has THEN kw.crs ELSE None

\* the mismatch test compares classes only
GeoElementInitTypeOnly(v, data, kw) ==
    LET crs == InferCRS(data)
        supplied_crs == Supplied(kw)
    IN  IF Truthy(supplied_crs) /\ Truthy(crs) /\ crs.cls # supplied_crs.cls
        THEN Fail("ValueError")
        ELSE IF Truthy(crs) THEN Ok(v, data, crs)
        ELSE Ok(v, data, supplied_crs)

\* GeoElement.__init__: the element the Element2D constructor builds from
\* (data, **kwargs), or the exception raised
GeoElementInit(v, data, kw) ==
    LET crs == InferCRS(data)
        supplied_crs == Supplied(kw)
    IN  IF Truthy(supplied_crs) /\ Truthy(crs) /\ crs # supplied_crs
        THEN Fail("ValueError")
        ELSE IF Truthy(crs) THEN Ok(v, data, crs)
        ELSE Ok(v, data, supplied_crs)

\* isinstance(data, T) of the constructors: a HoloCube is none of these
IsInstance(data, shape) == data.shape = shape /\ ~data.wrapped

GeoFeatureInit(data, kw) ==
    IF ~IsInstance(data, "Feature") THEN Fail("TypeError")
    ELSE GeoElementInit("GeoFeature", data, kw)

\* the type check left out
WMTSInitUnchecked(data, kw) == GeoElementInit("WMTS", data, kw)

WMTSInit(data, kw) ==
    IF ~IsInstance(data, "str") THEN Fail("TypeError")
    ELSE GeoElementInit("WMTS", data, kw)

GeoTilesInit(data, kw) ==
    IF ~IsInstance(data, "GoogleTiles") THEN Fail("TypeError")
    ELSE GeoElementInit("GeoTiles", data, kw)

\* type(self)(data, **kwargs)
VariantInit(v, data, kw) ==
    CASE v = "GeoFeature" -> GeoFeatureInit(data, kw)
      [] v = "WMTS"       -> WMTSInit(data, kw)
      [] v = "GeoTiles"   -> GeoTilesInit(data, kw)
      [] OTHER            -> GeoElementInit(v, data, kw)

\* GeoElement.clone: crs defaults to self.crs, then Element.clone builds
\* type(self)(data or self.data, **overrides)
clone(self, data, overrides) ==
    LET ov == IF ~overrides.has THEN [has |-> TRUE, crs |-> self.crs] ELSE overrides
        d  == IF data = NoData THEN self.data ELSE data
    IN  VariantInit(self.variant, d, ov)

MaxChain == 2

LastNone ==
    [op |-> "none", variant |-> "none", data |-> NoData, kw |-> NoKwargs, src |-> 0, exc |-> "none"]

\* A constructor call.  Text builds its own (x, y, text, ...) tuple payload.
Construct ==
    \E v \in Variants, data \in Payloads, kw \in Kwargs :
        /\ chain = <<>>
        /\ v = "Text" => data.shape = "tuple"
        /\ LET res == VariantInit(v, data, kw)
           IN  /\ chain' = IF res.exc = "none" THEN <<res.el>> ELSE chain
               /\ last' = [op |-> "init", variant |-> v, data |-> data, kw |-> kw,
                           src |-> 0, exc |-> res.exc]
        /\ UNCHANGED <<ext, gp, axis, owner, handles, plast>>

\* elem.clone(data, **overrides) on any element built so far
Clone ==
    \E i \in 1..Len(chain), data \in Payloads \cup {NoData}, ov \in Kwargs :
        /\ Len(chain) < MaxChain
        /\ chain[i].variant = "Text" => data.shape \in {"tuple", "NoneType"}
        /\ LET res == clone(chain[i], data, ov)
           IN  /\ chain' = IF res.exc = "none" THEN Append(chain, res.el) ELSE chain
               /\ last' = [op |-> "clone", variant |-> chain[i].variant, data |-> data,
                           kw |-> ov, src |-> i, exc |-> res.exc]
        /\ UNCHANGED <<ext, gp, axis, owner, handles, plast>>

(***************************************************************************)
(* GeoPlot.__init__: the display projection                                *)
(***************************************************************************)
MaxFrames == 2

\* projection = param.Parameter(default=crs.PlateCarree())
DefaultProjection == PlateCarree(0)

GpIdle ==
    [pc |-> "idle", holomap |-> FALSE, frames |-> <<None>>, params |-> NoKwargs,
     projection |-> DefaultProjection]

\* element.last if isinstance(element, HoloMap) else element; `frames` holds
\* the crs of the element, or of each element of the HoloMap in key order
LastElementCRS(holomap, frames) == IF holomap THEN frames[Len(frames)] ELSE frames[1]

\* The value of self.projection after construction: params['projection'] as
\* passed on to the parameterized constructor, which overrides the default
ResolveProjection(holomap, frames, params) ==
    IF ~params.has THEN LastElementCRS(holomap, frames) ELSE params.crs

ProjParams == {NoKwargs} \cup [has : {TRUE}, crs : CRSs \cup {None}]

GeoPlotInit ==
    \E holomap \in BOOLEAN, n \in 1..MaxFrames, params \in ProjParams :
        \E frames \in [1..n -> CRSs \cup {None}] :
            /\ gp.pc = "idle"
            /\ ~holomap => n = 1
            /\ gp' = [pc |-> "done", holomap |-> holomap, frames |-> frames,
                      params |-> params,
                      projection |-> ResolveProjection(holomap, frames, params)]
            /\ UNCHANGED <<ext, chain, last, axis, owner, handles, plast>>

(***************************************************************************)
(* Artists of the plots that share one axis                                *)
(***************************************************************************)
MaxArtists == 4

\* The layers of the overlay, named by their zorder
Layers == 0..3

Kind(z) ==
    CASE z \in {0, 1} -> "contour"    \* GeoContourPlot
      [] z = 2        -> "geo"        \* a plot with GeoPlot.teardown_handles
      [] OTHER        -> "text"       \* GeoTextPlot

NoHandle == [has |-> FALSE, ids |-> <<>>]

Range(f) == {f[i] : i \in DOMAIN f}

Owned(ax, z) == {a \in ax : owner[a] = z}

\* artist.remove(): detaches the artist, ValueError when it is not attached
ArtistRemove(ax, a) ==
    IF a \in ax THEN [exc |-> "none", axis |-> ax \ {a}]
    ELSE [exc |-> "ValueError", axis |-> ax]

\* no except clause
CatchNothing(exc) == exc

\* except ValueError: pass
CatchValueError(exc) == IF exc = "ValueError" THEN "none" ELSE exc

\* GeoPlot.teardown_handles; raw is what remove() raised
GeoPlot_teardown_handles(ax, h) ==
    IF h.has
    THEN LET r == ArtistRemove(ax, h.ids[1])
         IN  [exc |-> CatchValueError(r.exc), raw |-> r.exc, axis |-> r.axis]
    ELSE [exc |-> "none", raw |-> "none", axis |-> ax]

\* GeoContourPlot.teardown_handles; cla() detaches every artist of the axis
GeoContourPlot_teardown_handles(ax, z) ==
    [exc |-> "none", raw |-> "none", axis |-> IF z = 0 THEN {} ELSE ax]

teardown_handles(ax, z) ==
    IF Kind(z) = "contour" THEN GeoContourPlot_teardown_handles(ax, z)
    ELSE GeoPlot_teardown_handles(ax, handles[z])

NewArtist == Len(owner) + 1

PlastNone == [op |-> "none", layer |-> 0, exc |-> "none", raw |-> "none", anchorFails |-> FALSE]

\* init_artists: the draw primitive attaches a new artist to ax; the plot
\* records it as handles['artist']
init_artists(ax, z) ==
    /\ axis' = ax \cup {NewArtist}
    /\ owner' = Append(owner, z)
    /\ handles' = [handles EXCEPT ![z] = [has |-> TRUE, ids |-> <<NewArtist>>]]

\* first draw of a layer
InitializePlot(z) ==
    /\ Kind(z) # "text"
    /\ ~handles[z].has
    /\ Len(owner) < MaxArtists
    /\ init_artists(axis, z)
    /\ plast' = [PlastNone EXCEPT !.op = "initialize", !.layer = z]
    /\ UNCHANGED <<ext, chain, last, gp>>

\* redraw of a layer: teardown_handles, then init_artists
UpdateFrame(z) ==
    /\ Kind(z) # "text"
    /\ handles[z].has
    /\ Len(owner) < MaxArtists
    /\ LET td == teardown_handles(axis, z)
       IN  /\ IF td.exc = "none"
              THEN init_artists(td.axis, z)
              ELSE axis' = td.axis /\ UNCHANGED <<owner, handles>>
           /\ plast' = [PlastNone EXCEPT !.op = "update", !.layer = z,
                                         !.exc = td.exc, !.raw = td.raw]
    /\ UNCHANGED <<ext, chain, last, gp>>

\* teardown_handles on its own
Teardown(z) ==
    /\ Kind(z) # "text"
    /\ LET td == teardown_handles(axis, z)
       IN  /\ axis' = td.axis
           /\ plast' = [PlastNone EXCEPT !.op = "teardown", !.layer = z,
                                         !.exc = td.exc, !.raw = td.raw]
    /\ UNCHANGED <<owner, handles, ext, chain, last, gp>>

\* nothing is removed
RemoveNothing(ax, ids) == [exc |-> "none", axis |-> ax]

\* for element in self.handles['annotations']: element.remove()
RECURSIVE RemoveAll(_, _)
RemoveAll(ax, ids) ==
    IF ids = <<>> THEN [exc |-> "none", axis |-> ax]
    ELSE LET r == ArtistRemove(ax, Head(ids))
         IN  IF r.exc # "none" THEN r ELSE RemoveAll(r.axis, Tail(ids))

\* GeoTextPlot.draw_annotation: the anchor is reprojected, uncaught, and the
\* text artist drawn
draw_annotation(ax, anchorFails) ==
    IF anchorFails THEN [exc |-> "TransformError", axis |-> ax, ids |-> <<>>]
    ELSE [exc |-> "none", axis |-> ax \cup {NewArtist}, ids |-> <<NewArtist>>]

\* GeoAnnotationPlot.initialize_plot
TextInitialize(z) ==
    \E anchorFails \in BOOLEAN :
        /\ Kind(z) = "text"
        /\ ~handles[z].has
        /\ Len(owner) < MaxArtists
        /\ LET d == draw_annotation(axis, anchorFails)
           IN  /\ axis' = d.axis
               /\ owner' = IF d.exc = "none" THEN Append(owner, z) ELSE owner
               /\ handles' = IF d.exc = "none"
                             THEN [handles EXCEPT ![z] = [has |-> TRUE, ids |-> d.ids]]
                             ELSE handles
               /\ plast' = [PlastNone EXCEPT !.op = "initialize", !.layer = z,
                                             !.exc = d.exc, !.anchorFails = anchorFails]
        /\ UNCHANGED <<ext, chain, last, gp>>

\* GeoAnnotationPlot.update_handles
update_handles(z, anchorFails) ==
    LET rm == RemoveAll(axis, handles[z].ids)
        d  == draw_annotation(rm.axis, anchorFails)
    IN  IF rm.exc # "none"
        THEN /\ axis' = rm.axis
             /\ UNCHANGED <<owner, handles>>
             /\ plast' = [PlastNone EXCEPT !.op = "update", !.layer = z, !.exc = rm.exc,
                                           !.raw = rm.exc, !.anchorFails = anchorFails]
        ELSE /\ axis' = d.axis
             /\ owner' = IF d.exc = "none" THEN Append(owner, z) ELSE owner
             /\ handles' = IF d.exc = "none"
                           THEN [handles EXCEPT ![z] = [has |-> TRUE, ids |-> d.ids]]
                           ELSE handles
             /\ plast' = [PlastNone EXCEPT !.op = "update", !.layer = z, !.exc = d.exc,
                                           !.anchorFails = anchorFails]

TextUpdate(z) ==
    \E anchorFails \in BOOLEAN :
        /\ Kind(z) = "text"
        /\ handles[z].has
        /\ Len(owner) < MaxArtists
        /\ update_handles(z, anchorFails)
        /\ UNCHANGED <<ext, chain, last, gp>>

(***************************************************************************)
(* The specifications                                                      *)
(***************************************************************************)
InitRest ==
    /\ chain = <<>>
    /\ last = LastNone
    /\ gp = GpIdle
    /\ axis = {}
    /\ owner = <<>>
    /\ handles = [z \in Layers |-> NoHandle]
    /\ plast = PlastNone

Init == ext = ExtIdle /\ InitRest

InitExtents == ext \in ExtCalls /\ InitRest

NextExtents == GetExtents

SpecExtents == InitExtents /\ [][NextExtents]_vars

NextElement == Construct \/ Clone

SpecElement == Init /\ [][NextElement]_vars

NextProj == GeoPlotInit

SpecProj == Init /\ [][NextProj]_vars

NextPlot ==
    \E z \in Layers :
        \/ InitializePlot(z)
        \/ UpdateFrame(z)
        \/ Teardown(z)
        \/ TextInitialize(z)
        \/ TextUpdate(z)

SpecPlot == Init /\ [][NextPlot]_vars

(***************************************************************************)
(* Properties of transform_extents (SpecExtents)                           *)
(***************************************************************************)
Unchanged(c) ==
    c.ret = Returned(<<Some(c.extents[1]), Some(c.extents[2]),
                       Some(c.extents[3]), Some(c.extents[4])>>)

\* C1: transform_extents returns the input extent unchanged whenever the
\* element's crs is unset or equals the display projection, for every
\* display projection, the cylindrical ones included.
C1_NoOpWhenUnsetOrEqual ==
    (ext.pc = "done" /\ (ext.crs = None \/ ext.crs = ext.proj)) => Unchanged(ext)

\* the call reached the two corner transforms
Reprojected(c) ==
    c.pc = "done" /\ ~EarlyReturn(c.crs, c.ndims) /\ c.proj.cls # c.crs.cls

\* what the call returns when neither corner fails
Clean(c) == transform_extents(c.crs, c.ndims, c.proj, c.extents, FALSE, FALSE)

\* C2: when the reprojection of a corner raises, that corner's two
\* coordinates are undefined, the other corner's result is what it is without
\* the failure, and transform_extents returns without raising, whatever the
\* display projection and whichever corners fail.
C2_CornerFailureIsLocal ==
    Reprojected(ext) =>
        /\ ext.ret.status = "returned"
        /\ ext.failLB => ext.ret.val[1] = Undefined /\ ext.ret.val[2] = Undefined
        /\ ext.failRT => ext.ret.val[3] = Undefined /\ ext.ret.val[4] = Undefined
        /\ ~ext.failLB => ext.ret.val[1] = Clean(ext).val[1] /\ ext.ret.val[2] = Clean(ext).val[2]
        /\ ~ext.failRT => ext.ret.val[3] = Clean(ext).val[3] /\ ext.ret.val[4] = Clean(ext).val[4]

\* C8: past the early return, a call that returns under a cylindrical display
\* projection returns left and right exactly 180 less than the reprojected
\* left and right, and bottom and top as reprojected; under any other
\* projection it returns the four reprojected values as they are.
C8_CylindricalShift ==
    (ext.pc = "done" /\ ~EarlyReturn(ext.crs, ext.ndims) /\ ext.ret.status = "returned") =>
        IF ext.proj.cls \in {"PlateCarree", "Miller"}
        THEN /\ ext.rep[1].def /\ ext.ret.val[1] = Some(ext.rep[1].v - 180)
             /\ ext.rep[3].def /\ ext.ret.val[3] = Some(ext.rep[3].v - 180)
             /\ ext.ret.val[2] = ext.rep[2]
             /\ ext.ret.val[4] = ext.rep[4]
        ELSE ext.ret.val = ext.rep

\* a cylindrical call whose corners were really moved by the reprojection
C8_Witness ==
    /\ Reprojected(ext)
    /\ ext.proj.cls = "PlateCarree"
    /\ ext.ret.status = "returned"
    /\ ext.rep[1].v # ext.extents[1]
    /\ ext.rep[2].v # ext.extents[2]
    /\ ext.ret.val[1].v = ext.rep[1].v - 180
    /\ ext.ret.val[3].v = ext.rep[3].v - 180

(***************************************************************************)
(* Properties of GeoPlot.__init__ (SpecProj)                               *)
(***************************************************************************)
\* C4: the display projection is the explicit `projection` when one is
\* passed, else the crs of the element (the last one of a HoloMap), and the
\* default projection when that element has no crs: never an unset value.
C4_ProjectionResolved ==
    gp.pc = "done" =>
        LET elcrs == IF gp.holomap THEN gp.frames[Len(gp.frames)] ELSE gp.frames[1]
        IN  IF gp.params.has THEN gp.projection = gp.params.crs
            ELSE /\ gp.projection = (IF elcrs # None THEN elcrs ELSE PlateCarree(0))
                 /\ gp.projection # None

(***************************************************************************)
(* Properties of GeoElement (SpecElement)                                  *)
(***************************************************************************)
\* the crs a payload carries: a cube's convertible coordinate system, or the
\* .crs of a Feature or GoogleTiles, wrapped in a HoloCube or not
Inferable(d) ==
    IF (d.shape = "Cube" /\ d.conv) \/ d.shape \in {"Feature", "GoogleTiles"}
    THEN d.pcrs ELSE None

Built == last.exc = "none" /\ Len(chain) >= 1

Newest == chain[Len(chain)]

\* C5: with a supplied and an inferable crs, construction fails with
\* ValueError and creates no element when they differ and succeeds with that
\* crs when they are equal; with one of them the element adopts it; with
\* neither its crs is unset.
C5_CrsConflict ==
    (last.op = "init" /\ last.exc # "TypeError") =>
        LET inf == Inferable(last.data)
            sup == IF last.kw.has THEN last.kw.crs ELSE None
        IN  CASE inf # None /\ sup # None /\ inf # sup ->
                    last.exc = "ValueError" /\ chain = <<>>
              [] inf # None /\ sup # None /\ inf = sup ->
                    Built /\ Len(chain) = 1 /\ Newest.crs = sup
              [] inf # None /\ sup = None ->
                    Built /\ Len(chain) = 1 /\ Newest.crs = inf
              [] inf = None /\ sup # None ->
                    Built /\ Len(chain) = 1 /\ Newest.crs = sup
              [] OTHER ->
                    Built /\ Len(chain) = 1 /\ Newest.crs = None

\* a HoloCube-wrapped cube whose crs disagrees with the supplied one
C5_Witness ==
    /\ last.op = "init"
    /\ last.exc = "ValueError"
    /\ last.data.wrapped
    /\ last.kw.has /\ last.kw.crs.cls = last.data.pcrs.cls
    /\ chain = <<>>

\* C6: clone() of an element without a crs override yields an element with
\* the original's crs, and with a crs override (None included) one whose crs
\* is exactly the override.
C6_ClonePreservesCrs ==
    (last.op = "clone" /\ last.data = NoData) =>
        /\ Built
        /\ Len(chain) >= 2
        /\ Newest.crs = (IF last.kw.has THEN last.kw.crs ELSE chain[last.src].crs)

Did(op, k) == plast'.op = op /\ Kind(plast'.layer) = k

\* C3: teardown of a contour plot with zorder # 0 removes its own artist and
\* leaves the artists of the other layers attached; with zorder = 0 it clears
\* the axis; so the axis never holds more than one artist of a non-bottom
\* contour layer.
C3_ContourTeardown ==
    /\ [][Did("teardown", "contour") =>
            IF plast'.layer = 0 THEN axis' = {}
            ELSE axis' = axis \ Range(handles[plast'.layer].ids)]_vars
    /\ [](\A z \in Layers : (Kind(z) = "contour" /\ z # 0) => Cardinality(Owned(axis, z)) <= 1)

\* C7: GeoPlot.teardown_handles never raises, whether its artist is still
\* attached or was detached by another layer, and without a recorded artist
\* it changes nothing.
C7_TeardownNeverRaises ==
    [][(Did("teardown", "geo") \/ Did("update", "geo")) =>
         /\ plast'.exc = "none"
         /\ (Did("teardown", "geo") /\ ~handles[plast'.layer].has) =>
                (axis' = axis /\ handles' = handles /\ owner' = owner)
         /\ (Did("teardown", "geo") /\ handles[plast'.layer].has) =>
                axis' = axis \ {handles[plast'.layer].ids[1]}]_vars

\* the teardown found its artist already detached, the axis having been cleared
C7_Witness ==
    /\ plast.op = "teardown" /\ Kind(plast.layer) = "geo"
    /\ plast.raw = "ValueError"
    /\ plast.exc = "none"
    /\ handles[plast.layer].has

\* C10: after an update_handles that returns, handles['annotations'] lists
\* exactly the attached annotation artists of the plot; when the anchor
\* reprojection fails the error propagates, the artists drawn before are
\* detached and handles['annotations'] still lists them.
C10_AnnotationHandles ==
    /\ [](\A z \in Layers :
            (plast.op = "update" /\ plast.layer = z /\ Kind(z) = "text") =>
                /\ plast.exc = "none" => Range(handles[z].ids) = Owned(axis, z)
                /\ plast.anchorFails => plast.exc # "none")
    /\ [][(Did("update", "text") /\ plast'.exc = "TransformError") =>
            /\ handles' = handles
            /\ Range(handles[plast'.layer].ids) \subseteq axis
            /\ Range(handles[plast'.layer].ids) \cap axis' = {}]_vars

\* a failed update has left the handles listing a detached artist
C10_Witness ==
    /\ plast.op = "update" /\ Kind(plast.layer) = "text"
    /\ plast.exc = "TransformError"
    /\ handles[plast.layer].ids # <<>>
    /\ Range(handles[plast.layer].ids) \cap axis = {}

=============================================================================
